---- MODULE Spec2Model ----
(***************************************************************************)
(* Best-model consolidation (process_ranking_and_write_summary) and the    *)
(* relocation pass (select_unrelaxed_to_or_based_output) of                *)
(* output_name_update.py, over an explicit file system.                    *)
(*                                                                         *)
(* A file or directory name is a sequence of string tokens                 *)
(* ("unrelaxed_", "model_", "1", "_pred", "_0", ".pdb" spell               *)
(* unrelaxed_model_1_pred_0.pdb); an f-string is the concatenation of its  *)
(* pieces.  A path is a sequence of names, the empty path being the        *)
(* directory the script is started in.                                     *)
(*                                                                         *)
(* Domain of the inputs: every entry of a sequence folder is a regular,    *)
(* readable file, and every ranking file holds a JSON object with a        *)
(* non-empty "order" list; I/O failures of copy and write are left out.    *)
(* The order in which os.listdir returns the entries of a directory is     *)
(* part of the directory's state: it is chosen freely at the start and is  *)
(* the same for every listing of an unchanged directory.  Between two runs *)
(* the prediction pipeline, which owns the job folder, may rewrite a       *)
(* structure file (PipelineRewrite); the script itself is run as its two   *)
(* passes, in any order and any number of times.                           *)
(***************************************************************************)
EXTENDS Integers, Sequences, FiniteSets, TLC

VARIABLES
    fs,        \* the file system: [dirs: set of paths, files: path -> content]
    listing,   \* directory path -> the order os.listdir returns its entries in
    out,       \* the lines printed by the last run
    raised,    \* the exception the last run ended with, "" when it returned
    lastOp,    \* the last step: "none", "process", "select" or "rewrite"
    again,     \* the last step repeated the operation of the step before it
    rewrites   \* how many times the prediction pipeline rewrote a structure file

vars == <<fs, listing, out, raised, lastOp, again, rewrites>>

\* How many times the external pipeline may rewrite a structure file.
MaxRewrites == 1

---------------------------------------------------------------------------
(* Command-line arguments (main, argparse).                                *)

job_folder == <<"J">>
path == <<>>
or_output_path == << <<"OR">> >>

---------------------------------------------------------------------------
(* File contents.  One record shape for every file: raw text, or a parsed  *)
(* ranking document (order, scores by key), or a summary document.         *)

Text(t) == [text |-> t, order |-> <<>>, scores |-> <<>>, summary |-> <<>>]
Ranking(o, s) == [text |-> "", order |-> o, scores |-> s, summary |-> <<>>]
SummaryDoc(d) == [text |-> "", order |-> <<>>, scores |-> <<>>, summary |-> d]

---------------------------------------------------------------------------
(* os.path and shutil.                                                     *)

Join(p, n) == Append(p, n)

IsDir(f, p) == p \in f.dirs
IsFile(f, p) == p \in DOMAIN f.files
Exists(f, p) == IsDir(f, p) \/ IsFile(f, p)

\* os.makedirs(p, exist_ok=True): p and every missing ancestor.
MakeDirs(f, p) == [f EXCEPT !.dirs = @ \cup {SubSeq(p, 1, k) : k \in 0..Len(p)}]

\* open(p, 'w') + write: create or truncate.
WriteFile(f, p, c) == [f EXCEPT !.files = (p :> c) @@ @]

\* Variant: the destination is opened for appending, so an existing file
\* keeps its old text in front of the new.
CopyFileAppend(f, src, dst) ==
    IF IsFile(f, dst)
    THEN WriteFile(f, dst, [f.files[src] EXCEPT !.text = f.files[dst].text \o @])
    ELSE WriteFile(f, dst, f.files[src])

\* Variant: shutil.move, the source is gone afterwards.
MoveFile(f, src, dst) ==
    [f EXCEPT !.files =
        [p \in (DOMAIN f.files \cup {dst}) \ {src} |->
            IF p = dst THEN f.files[src] ELSE f.files[p]]]

\* shutil.copy / shutil.copy2 onto a file path: the destination is replaced.
CopyFile(f, src, dst) == WriteFile(f, dst, f.files[src])

---------------------------------------------------------------------------
(* Names built by the f-strings of the two passes.                         *)

ranking_debug_json == <<"ranking_debug.json">>
best_models_json == <<"best_models.json">>

job_path == Join(path, job_folder)
processed_folder == job_folder \o <<"_processed">>
processed_path == Join(path, processed_folder)
best_models_file == Join(processed_path, best_models_json)

\* f"{subfolder_name}_ranking_debug.json"
SeqRankingName(subfolder_name) == subfolder_name \o <<"_">> \o ranking_debug_json
\* f"{subfolder_name}_{best_model}"
SummaryKey(subfolder_name, best_model) == subfolder_name \o <<"_">> \o best_model
\* f"unrelaxed_{best_model}.pdb"
PdbName(best_model) == <<"unrelaxed_">> \o best_model \o <<".pdb">>
\* f"{subfolder_name}_unrelaxed_{best_model}.pdb"
SeqPdbName(subfolder_name, best_model) ==
    subfolder_name \o <<"_">> \o PdbName(best_model)

DigitChars == <<"0", "1", "2", "3", "4", "5", "6", "7", "8", "9">>
IsDigit(t) == \E d \in 1..Len(DigitChars) : DigitChars[d] = t
DigitVal(t) == (CHOOSE d \in 1..Len(DigitChars) : DigitChars[d] = t) - 1

\* int("<digits>")
RECURSIVE IntOf(_)
IntOf(ds) ==
    IF ds = <<>> THEN 0
    ELSE 10 * IntOf(SubSeq(ds, 1, Len(ds) - 1)) + DigitVal(ds[Len(ds)])

\* str(n), n >= 0
RECURSIVE StrOf(_)
StrOf(n) ==
    IF n < 10 THEN <<DigitChars[n + 1]>>
    ELSE StrOf(n \div 10) \o <<DigitChars[(n % 10) + 1]>>

\* re.search(r'model_(\d+)_pred', best_model): the positions i where a match
\* starts, and the end of the digit run of the match at i.
DigitsEnd(m, i) ==
    CHOOSE k \in i..Len(m) :
        /\ \A j \in (i + 1)..k : IsDigit(m[j])
        /\ (k = Len(m) \/ ~IsDigit(m[k + 1]))
MatchAt(m, i) ==
    /\ m[i] = "model_"
    /\ DigitsEnd(m, i) > i
    /\ DigitsEnd(m, i) < Len(m)
    /\ m[DigitsEnd(m, i) + 1] = "_pred"
Matches(m) == {i \in 1..Len(m) : MatchAt(m, i)}

\* extract_best_number: [ok, number]; ~ok is the ValueError.
extract_best_number(best_model) ==
    IF Matches(best_model) = {} THEN [ok |-> FALSE, number |-> 0]
    ELSE LET i == CHOOSE x \in Matches(best_model) :
                      \A y \in Matches(best_model) : x <= y
         IN [ok |-> TRUE,
             number |-> IntOf(SubSeq(best_model, i + 1, DigitsEnd(best_model, i)))]

\* f"{subfolder_name}_{best_number}.pdb"
NewPdbName(subfolder_name, best_number) ==
    subfolder_name \o <<"_">> \o StrOf(best_number) \o <<".pdb">>

\* ranking_data.get("plddts") or ranking_data.get("iptm+ptm"):
\* dict.get gives None for a missing key, and `or` passes over a falsy left
\* operand (None, or an empty mapping).
DictGet(d, k) ==
    IF k \in DOMAIN d THEN [none |-> FALSE, map |-> d[k]]
    ELSE [none |-> TRUE, map |-> <<>>]
Truthy(v) == ~v.none /\ DOMAIN v.map # {}
ResolveScores(ranking_data) ==
    IF Truthy(DictGet(ranking_data.scores, "plddts"))
    THEN DictGet(ranking_data.scores, "plddts")
    ELSE DictGet(ranking_data.scores, "iptm+ptm")

---------------------------------------------------------------------------
(* process_ranking_and_write_summary.  A run's state: the file system, the  *)
(* best_models_data dictionary, the lines printed, and the exception that  *)
(* ended it ("" while it is running).                                      *)

Emit(st, msg, who) == [st EXCEPT !.out = Append(@, [msg |-> msg, who |-> who])]
Raise(st, e) == [st EXCEPT !.exc = e]

\* os.listdir(p): the entries in the directory's order, or the OSError.
ListDirError(f, p) ==
    IF IsDir(f, p) THEN ""
    ELSE IF IsFile(f, p) THEN "NotADirectoryError"
    ELSE "FileNotFoundError"

\* Lines 120-135: number, structure file, copy.
LocateAndCopy(st, subfolder_name, best_model) ==
    LET subfolder_path == Join(job_path, subfolder_name)
        best_number == extract_best_number(best_model)
        pdb1 == Join(subfolder_path, PdbName(best_model))
        pdb2 == Join(subfolder_path, SeqPdbName(subfolder_name, best_model))
    IN  IF ~best_number.ok THEN Raise(st, "ValueError")
        ELSE IF ~Exists(st.fs, pdb1) /\ ~Exists(st.fs, pdb2)
        THEN Emit(st, "PDB file not found", subfolder_name)
        ELSE LET pdb_file == IF Exists(st.fs, pdb1) THEN pdb1 ELSE pdb2
                 new_pdb_path ==
                     Join(processed_path, NewPdbName(subfolder_name, best_number.number))
             IN  Emit([st EXCEPT !.fs = CopyFile(@, pdb_file, new_pdb_path)],
                      "Copied", subfolder_name)

\* Lines 105-118: best model, score, summary entry.
ResolveAndRecord(st, subfolder_name, ranking_data) ==
    IF ranking_data.order = <<>> THEN Raise(st, "IndexError")
    ELSE
    LET best_model == ranking_data.order[1]
        scores == ResolveScores(ranking_data)
    IN  IF scores.none
        THEN Raise(Emit(st, "KEY ERROR", <<>>), "TypeError")
        ELSE IF best_model \notin DOMAIN scores.map THEN Raise(st, "KeyError")
        ELSE LocateAndCopy(
                 [st EXCEPT !.data =
                     (SummaryKey(subfolder_name, best_model) :> scores.map[best_model]) @@ @],
                 subfolder_name, best_model)

\* Lines 87-135: the body of the loop, for one entry of the job folder.
ProcessEntry(st, subfolder_name) ==
    LET subfolder_path == Join(job_path, subfolder_name)
        rf1 == Join(subfolder_path, SeqRankingName(subfolder_name))
        rf2 == Join(subfolder_path, ranking_debug_json)
    IN  IF ~IsDir(st.fs, subfolder_path) THEN st
        ELSE IF ~Exists(st.fs, rf1) /\ ~Exists(st.fs, rf2)
        THEN Emit(st, "Ranking file not found", subfolder_name)
        ELSE ResolveAndRecord(st, subfolder_name,
                 st.fs.files[IF Exists(st.fs, rf1) THEN rf1 ELSE rf2])

\* The for loop: an exception leaves it.
RECURSIVE ProcessLoop(_, _, _)
ProcessLoop(entries, i, st) ==
    IF i > Len(entries) \/ st.exc # "" THEN st
    ELSE ProcessLoop(entries, i + 1, ProcessEntry(st, entries[i]))

\* Lines 137-141: json.dump of best_models_data.
WriteSummary(st) ==
    IF st.exc # "" THEN st
    ELSE Emit([st EXCEPT !.fs = WriteFile(@, best_models_file, SummaryDoc(st.data))],
              "Best models data written", <<>>)

\* Lines 74-141, from file system f with directory orders lst.
RunProcess(f, lst) ==
    LET st0 == [fs |-> MakeDirs(f, processed_path), data |-> <<>>,
                out |-> <<>>, exc |-> ""]
    IN  IF ListDirError(st0.fs, job_path) # ""
        THEN Raise(st0, ListDirError(st0.fs, job_path))
        ELSE WriteSummary(ProcessLoop(lst[job_path], 1, st0))

---------------------------------------------------------------------------
(* select_unrelaxed_to_or_based_output.                                    *)

\* filename.startswith("unrelaxed_model")
StartsWithUnrelaxedModel(filename) ==
    Len(filename) >= 2 /\ filename[1] = "unrelaxed_" /\ filename[2] = "model_"

\* os.path.splitext: the extension is the last token when it is ".<ext>" and
\* is not the whole name.
IsExt(t) == t \in {".pdb", ".json", ".pkl", ".txt"}
splitext(filename) ==
    IF Len(filename) >= 2 /\ IsExt(filename[Len(filename)])
    THEN [name |-> SubSeq(filename, 1, Len(filename) - 1),
          ext |-> <<filename[Len(filename)]>>]
    ELSE [name |-> filename, ext |-> <<>>]

\* name.endswith("_pred_0")
EndsWithPred0(name) ==
    Len(name) >= 2 /\ name[Len(name) - 1] = "_pred" /\ name[Len(name)] = "_0"

\* Variant: the _pred_0 suffix is kept.
NewFilenameNoStrip(or_subfolder_name, filename) ==
    or_subfolder_name \o <<"_">> \o filename

\* Lines 188-198: the destination file name.
NewFilename(or_subfolder_name, filename) ==
    IF StartsWithUnrelaxedModel(filename)
    THEN LET se == splitext(filename)
             name == IF EndsWithPred0(se.name)
                     THEN SubSeq(se.name, 1, Len(se.name) - 2)
                     ELSE se.name
         IN  or_subfolder_name \o <<"_">> \o name \o se.ext
    ELSE or_subfolder_name \o <<"_">> \o filename

\* Lines 182-185: the files the pass copies.
Selected(filename) ==
    StartsWithUnrelaxedModel(filename) \/ filename = ranking_debug_json

\* Variant: an existing destination file is left as it is.
SelectFileNoOverwrite(st, or_subfolder_name, filename) ==
    IF ~Selected(filename) THEN st
    ELSE LET src_file == Join(Join(job_path, or_subfolder_name), filename)
             dest_file == Join(Join(or_output_path, or_subfolder_name),
                               NewFilename(or_subfolder_name, filename))
         IN  IF Exists(st.fs, dest_file)
             THEN Emit(st, "File exists, will be overwritten", or_subfolder_name)
             ELSE [Emit(st, "Copying file", or_subfolder_name)
                      EXCEPT !.fs = CopyFile(@, src_file, dest_file)]

\* Lines 177-208: the body of the inner loop, for one entry of the subfolder.
SelectFile(st, or_subfolder_name, filename) ==
    IF ~Selected(filename) THEN st
    ELSE LET src_file == Join(Join(job_path, or_subfolder_name), filename)
             dest_file == Join(Join(or_output_path, or_subfolder_name),
                               NewFilename(or_subfolder_name, filename))
             st1 == IF Exists(st.fs, dest_file)
                    THEN Emit(st, "File exists, will be overwritten", or_subfolder_name)
                    ELSE Emit(st, "Copying file", or_subfolder_name)
         IN  [st1 EXCEPT !.fs = CopyFile(@, src_file, dest_file)]

RECURSIVE SelectFiles(_, _, _, _)
SelectFiles(names, i, st, or_subfolder_name) ==
    IF i > Len(names) THEN st
    ELSE SelectFiles(names, i + 1, SelectFile(st, or_subfolder_name, names[i]),
                     or_subfolder_name)

\* Lines 161-208: the body of the outer loop, for one entry of the job folder.
SelectEntry(st, lst, or_subfolder_name) ==
    LET or_subfolder_path == Join(job_path, or_subfolder_name)
        dest_subfolder == Join(or_output_path, or_subfolder_name)
    IN  IF ~IsDir(st.fs, or_subfolder_path) THEN st
        ELSE SelectFiles(lst[or_subfolder_path], 1,
                 [st EXCEPT !.fs = MakeDirs(@, dest_subfolder)], or_subfolder_name)

RECURSIVE SelectLoop(_, _, _, _)
SelectLoop(entries, i, st, lst) ==
    IF i > Len(entries) THEN st
    ELSE SelectLoop(entries, i + 1, SelectEntry(st, lst, entries[i]), lst)

\* Lines 153-210, from file system f with directory orders lst.
RunSelect(f, lst) ==
    LET st0 == [fs |-> MakeDirs(f, or_output_path), data |-> <<>>,
                out |-> <<>>, exc |-> ""]
    IN  IF ListDirError(st0.fs, job_path) # ""
        THEN Raise(st0, ListDirError(st0.fs, job_path))
        ELSE SelectLoop(lst[job_path], 1, st0, lst)

---------------------------------------------------------------------------
(* The job folders the prediction pipeline may have produced.              *)

SeqNames == {<<"A">>, <<"B">>}

m1 == <<"model_", "1", "_pred", "_0">>
m2 == <<"model_", "2", "_pred", "_0">>
mx == <<"x">>

\* Ranking documents: the two score keys alone, none, both, an empty plddts
\* next to iptm+ptm, a best model missing from the mapping, a best model
\* with no model number.  The order list is never empty.
Rankings ==
    { Ranking(<<m1>>, "plddts" :> (m1 :> 87)),
      Ranking(<<m1>>, "iptm+ptm" :> (m1 :> 87)),
      Ranking(<<m1>>, <<>>),
      Ranking(<<m1>>, ("plddts" :> (m1 :> 87)) @@ ("iptm+ptm" :> (m1 :> 50))),
      Ranking(<<m1>>, ("plddts" :> <<>>) @@ ("iptm+ptm" :> (m1 :> 50))),
      Ranking(<<m1>>, "plddts" :> (m2 :> 50)),
      Ranking(<<mx>>, "plddts" :> (mx :> 50)) }

\* Structure files of a folder, in listing order: "U" is unrelaxed_<m1>.pdb,
\* "P" is <sequence>_unrelaxed_<m1>.pdb, "V" is unrelaxed_model_1.pdb.
StructChoices ==
    { <<>>, <<"U">>, <<"P">>, <<"U", "P">>, <<"U", "V">>, <<"V", "U">> }
StructName(sub, code) ==
    IF code = "U" THEN PdbName(m1)
    ELSE IF code = "P" THEN SeqPdbName(sub, m1)
    ELSE <<"unrelaxed_", "model_", "1", ".pdb">>
StructText(code) == IF code = "U" THEN "u" ELSE IF code = "P" THEN "p" ELSE "v"

features_pkl == <<"features", ".pkl">>
readme == <<"README">>

\* A folder is either any ranking situation (no ranking file, each ranking
\* document under the plain name, the good one under the prefixed name) with
\* the structure file absent or present under its first name, or the good
\* ranking document with any of the other structure-file situations.
GoodRanking == Ranking(<<m1>>, "plddts" :> (m1 :> 87))
FolderConfigs ==
    {[rk |-> "none", r |-> Ranking(<<>>, <<>>), st |-> s] : s \in {<<>>, <<"U">>}}
    \cup {[rk |-> "plain", r |-> r, st |-> s] : r \in Rankings, s \in {<<>>, <<"U">>}}
    \cup {[rk |-> "prefixed", r |-> GoodRanking, st |-> s] : s \in {<<>>, <<"U">>}}
    \cup {[rk |-> "plain", r |-> GoodRanking, st |-> s] : s \in StructChoices}

RankingNames(sub, cfg) ==
    IF cfg.rk = "plain" THEN <<ranking_debug_json>>
    ELSE IF cfg.rk = "prefixed" THEN <<SeqRankingName(sub)>>
    ELSE <<>>

FolderListing(sub, cfg) ==
    RankingNames(sub, cfg)
    \o [i \in 1..Len(cfg.st) |-> StructName(sub, cfg.st[i])]
    \o <<features_pkl>>

FolderContent(sub, cfg, name) ==
    IF name = features_pkl THEN Text("k")
    ELSE IF \E i \in 1..Len(RankingNames(sub, cfg)) : RankingNames(sub, cfg)[i] = name
    THEN cfg.r
    ELSE Text(StructText(CHOOSE c \in {"U", "P", "V"} : StructName(sub, c) = name))

Range(s) == {s[i] : i \in 1..Len(s)}
Perms(S) == {s \in [1..Cardinality(S) -> S] : Range(s) = S}

\* The job folder with the sequence folders cfgs (name -> configuration):
\* its directories and files, a stray first-level file among them.
JobDirs(cfgs) ==
    {SubSeq(job_path, 1, k) : k \in 0..Len(job_path)}
    \cup {Join(job_path, s) : s \in DOMAIN cfgs}
JobFilePaths(cfgs) ==
    UNION {{Join(Join(job_path, s), n) : n \in Range(FolderListing(s, cfgs[s]))} :
               s \in DOMAIN cfgs}
    \cup {Join(job_path, readme)}
JobFiles(cfgs) ==
    [p \in JobFilePaths(cfgs) |->
        IF Len(p) = Len(job_path) + 1 THEN Text("r")
        ELSE FolderContent(p[Len(p) - 1], cfgs[p[Len(p) - 1]], p[Len(p)])]
\* os.listdir order of the job folder (ord, after the stray file) and of
\* each sequence folder.
JobListing(cfgs, ord) ==
    [d \in {job_path} \cup {Join(job_path, s) : s \in DOMAIN cfgs} |->
        IF d = job_path THEN <<readme>> \o ord
        ELSE FolderListing(d[Len(d)], cfgs[d[Len(d)]])]

InitJob ==
    \E subs \in SUBSET SeqNames :
        \E cfgs \in [subs -> FolderConfigs], ord \in Perms(subs) :
            /\ fs = [dirs |-> JobDirs(cfgs), files |-> JobFiles(cfgs)]
            /\ listing = JobListing(cfgs, ord)

\* Structural errors: the job folder is absent, or is a regular file.
InitNoJob ==
    /\ fs \in { [dirs |-> {path}, files |-> <<>>],
                [dirs |-> {path}, files |-> (job_path :> Text("r"))] }
    /\ listing = <<>>

Init ==
    /\ InitJob \/ InitNoJob
    /\ out = <<>>
    /\ raised = ""
    /\ lastOp = "none"
    /\ again = FALSE
    /\ rewrites = 0

---------------------------------------------------------------------------
(* Steps.                                                                  *)

process_ranking_and_write_summary ==
    LET r == RunProcess(fs, listing)
    IN  /\ fs' = r.fs
        /\ out' = r.out
        /\ raised' = r.exc
        /\ lastOp' = "process"
        /\ again' = (lastOp = "process")
        /\ UNCHANGED <<listing, rewrites>>

select_unrelaxed_to_or_based_output ==
    LET r == RunSelect(fs, listing)
    IN  /\ fs' = r.fs
        /\ out' = r.out
        /\ raised' = r.exc
        /\ lastOp' = "select"
        /\ again' = (lastOp = "select")
        /\ UNCHANGED <<listing, rewrites>>

\* The prediction pipeline rewrites a structure file of a sequence folder
\* between two runs of the script.
PipelineRewrite ==
    /\ rewrites < MaxRewrites
    /\ \E p \in DOMAIN fs.files :
        /\ Len(p) = Len(job_path) + 2
        /\ SubSeq(p, 1, Len(job_path)) = job_path
        /\ fs.files[p].text \in {"u", "p", "v"}
        /\ fs' = WriteFile(fs, p, Text("w"))
    /\ rewrites' = rewrites + 1
    /\ out' = <<>>
    /\ raised' = ""
    /\ lastOp' = "rewrite"
    /\ again' = FALSE
    /\ UNCHANGED listing

Next ==
    \/ process_ranking_and_write_summary
    \/ select_unrelaxed_to_or_based_output
    \/ PipelineRewrite

Spec == Init /\ [][Next]_vars

---------------------------------------------------------------------------
(* Vocabulary of the properties.                                           *)

Under(p, d) == Len(p) > Len(d) /\ SubSeq(p, 1, Len(d)) = d
Last(p) == p[Len(p)]

\* The sequence folders: the first-level directories of the job folder.
SeqFolders(f) == {Last(d) : d \in {q \in f.dirs : Under(q, job_path) /\ Len(q) = Len(job_path) + 1}}

\* The names of the files directly inside directory d.
FilesIn(f, d) == {Last(p) : p \in {q \in DOMAIN f.files : Under(q, d) /\ Len(q) = Len(d) + 1}}

\* The part of the file system inside directory d.
Tree(f, d) ==
    [dirs |-> {q \in f.dirs : Under(q, d)},
     files |-> [p \in {q \in DOMAIN f.files : Under(q, d)} |-> f.files[p]]]

Models == {m1, m2, mx}

HasRanking(f, s) ==
    \/ IsFile(f, Join(Join(job_path, s), SeqRankingName(s)))
    \/ IsFile(f, Join(Join(job_path, s), ranking_debug_json))
\* The ranking document of sequence folder s (the prefixed name first).
RankingOf(f, s) ==
    IF IsFile(f, Join(Join(job_path, s), SeqRankingName(s)))
    THEN f.files[Join(Join(job_path, s), SeqRankingName(s))]
    ELSE f.files[Join(Join(job_path, s), ranking_debug_json)]
HasStructure(f, s, m) ==
    \/ IsFile(f, Join(Join(job_path, s), PdbName(m)))
    \/ IsFile(f, Join(Join(job_path, s), SeqPdbName(s, m)))

\* The summary on disk (empty when best_models.json does not exist), the
\* keys it holds for sequence s, and the structure files of s in <job>_processed.
Summary(f) ==
    IF IsFile(f, best_models_file) THEN f.files[best_models_file].summary ELSE <<>>
KeysOf(f, s) == {k \in DOMAIN Summary(f) : \E m \in Models : k = SummaryKey(s, m)}
ProcessedOf(f, s) ==
    {n \in FilesIn(f, processed_path) :
        /\ Len(n) > Len(s) + 1
        /\ SubSeq(n, 1, Len(s) + 1) = s \o <<"_">>
        /\ Last(n) = ".pdb"}

\* The lines of the last run that name sequence s.
LinesOf(s) == {i \in 1..Len(out) : out[i].who = s}
Said(msg, s) == \E i \in 1..Len(out) : out[i] = [msg |-> msg, who |-> s]

---------------------------------------------------------------------------
(* Properties.                                                             *)

\* C1: a per-sequence data error never aborts the job: every run of
\* process_ranking_and_write_summary on a job folder returns, and
\* best_models.json is written.
C1_DataErrorNeverAborts ==
    (lastOp = "process" /\ IsDir(fs, job_path))
        => (raised = "" /\ IsFile(fs, best_models_file))

\* C2: after a completed run the summary holds an entry for a sequence only
\* if that sequence's structure file was copied in that run.
C2_SummaryOnlyCopied ==
    (lastOp = "process" /\ raised = "")
        => \A k \in DOMAIN Summary(fs) :
               \E s \in SeqFolders(fs) :
                   /\ \E m \in Models : k = SummaryKey(s, m)
                   /\ Said("Copied", s)

\* The case of C3 for sequence folder s.
C3_Pre(s) ==
    /\ HasRanking(fs, s)
    /\ RankingOf(fs, s).order # <<>>
    /\ ~ResolveScores(RankingOf(fs, s)).none
    /\ RankingOf(fs, s).order[1] \in DOMAIN ResolveScores(RankingOf(fs, s)).map
    /\ HasStructure(fs, s, RankingOf(fs, s).order[1])

\* C3: every sequence folder whose order[0] is a key of the resolved score
\* mapping and whose structure file exists under one of the two names has,
\* after a run, exactly one summary entry <sequence>_<model> with that score
\* and exactly one structure file in <job>_processed.
C3_GoodSequenceRecorded ==
    lastOp = "process"
        => \A s \in SeqFolders(fs) :
               C3_Pre(s) =>
                   LET m == RankingOf(fs, s).order[1]
                   IN  /\ KeysOf(fs, s) = {SummaryKey(s, m)}
                       /\ Summary(fs)[SummaryKey(s, m)]
                              = ResolveScores(RankingOf(fs, s)).map[m]
                       /\ Cardinality(ProcessedOf(fs, s)) = 1

\* C4: a sequence folder with neither ranking file is absent from the
\* summary, gets exactly one diagnostic, and has no structure file copied.
C4_NoRankingSkipped ==
    lastOp = "process"
        => \A s \in SeqFolders(fs) :
               ~HasRanking(fs, s) =>
                   /\ KeysOf(fs, s) = {}
                   /\ Cardinality(LinesOf(s)) = 1
                   /\ Said("Ranking file not found", s)
                   /\ ProcessedOf(fs, s) = {}

\* C5: on a job folder that is absent or not a directory both passes fail
\* and leave the file system unchanged.
C5_StructuralErrorNoEffect ==
    [][(lastOp' \in {"process", "select"} /\ ~IsDir(fs, job_path))
          => (raised' # "" /\ fs' = fs)]_vars


\* C6: running process_ranking_and_write_summary twice in a row leaves
\* best_models.json and the files of <job>_processed exactly as the first
\* run left them.
C6_ProcessIdempotent ==
    [][(lastOp = "process" /\ lastOp' = "process")
          => Tree(fs', processed_path) = Tree(fs, processed_path)]_vars
C6_Witness ==
    /\ lastOp = "process" /\ again /\ raised = ""
    /\ DOMAIN Summary(fs) # {}
    /\ \E s \in SeqFolders(fs) : ProcessedOf(fs, s) # {}

\* The relocation rule as the specification words it: a file is copied when
\* its name starts with unrelaxed_model or is ranking_debug.json, to
\* <subfolder>_<name>, a trailing _pred_0 of the base name of an
\* unrelaxed_model file being dropped first.
SpecSelected(F) ==
    \/ (Len(F) >= 2 /\ SubSeq(F, 1, 2) = <<"unrelaxed_", "model_">>)
    \/ F = <<"ranking_debug.json">>
SpecBase(F) == IF Len(F) >= 2 /\ Last(F) = ".pdb" THEN SubSeq(F, 1, Len(F) - 1) ELSE F
SpecExt(F) == IF Len(F) >= 2 /\ Last(F) = ".pdb" THEN <<".pdb">> ELSE <<>>
SpecDestName(D, F) ==
    IF F = <<"ranking_debug.json">> THEN D \o <<"_">> \o F
    ELSE IF Len(SpecBase(F)) >= 2
            /\ SubSeq(SpecBase(F), Len(SpecBase(F)) - 1, Len(SpecBase(F))) = <<"_pred", "_0">>
    THEN D \o <<"_">> \o SubSeq(SpecBase(F), 1, Len(SpecBase(F)) - 2) \o SpecExt(F)
    ELSE D \o <<"_">> \o F

\* The entries of subfolder D, in listing order, that are copied onto n.
SourcesOf(lst, D, n) ==
    {i \in 1..Len(lst[Join(job_path, D)]) :
        /\ SpecSelected(lst[Join(job_path, D)][i])
        /\ SpecDestName(D, lst[Join(job_path, D)][i]) = n}

\* C7: a run of select_unrelaxed_to_or_based_output for a subfolder it has
\* already processed adds no destination file, and after a run every
\* destination file holds the current content of the last source file
\* written onto it.
C7_SelectRerunnable ==
    [][(lastOp' = "select" /\ raised' = "")
          => \A D \in SeqFolders(fs') :
                 LET dest == Join(or_output_path, D)
                 IN  /\ IsDir(fs, dest) => FilesIn(fs', dest) = FilesIn(fs, dest)
                     /\ \A n \in FilesIn(fs', dest) :
                            \E i \in SourcesOf(listing, D, n) :
                                /\ \A j \in SourcesOf(listing, D, n) : j <= i
                                /\ fs'.files[Join(dest, n)]
                                       = fs'.files[Join(Join(job_path, D),
                                                        listing[Join(job_path, D)][i])]]_vars
C7_Witness ==
    /\ lastOp = "select" /\ raised = "" /\ rewrites > 0
    /\ \E i \in 1..Len(out) : out[i].msg = "File exists, will be overwritten"
    /\ \E p \in DOMAIN fs.files : Under(p, or_output_path) /\ fs.files[p].text = "w"

\* C8: for every first-level subfolder D the pass copies exactly the files
\* of D that the rule selects, each to <output-root>/D/ under the name the
\* rule gives, and makes a destination folder for the subfolders only.
C8_SelectCopiesExactly ==
    (lastOp = "select" /\ raised = "")
        => /\ \A D \in SeqFolders(fs) :
                  FilesIn(fs, Join(or_output_path, D))
                      = {SpecDestName(D, F) :
                            F \in {G \in FilesIn(fs, Join(job_path, D)) : SpecSelected(G)}}
           /\ {d \in fs.dirs : Under(d, or_output_path)}
                  = {Join(or_output_path, D) : D \in SeqFolders(fs)}
           /\ \A p \in DOMAIN fs.files :
                  Under(p, or_output_path) => Len(p) = Len(or_output_path) + 2
C8_Witness ==
    /\ lastOp = "select" /\ raised = ""
    /\ \E D \in SeqFolders(fs) :
        /\ IsFile(fs, Join(Join(job_path, D), PdbName(m1)))
        /\ IsFile(fs, Join(Join(job_path, D), SeqPdbName(D, m1)))
        /\ IsFile(fs, Join(Join(job_path, D), ranking_debug_json))
        /\ FilesIn(fs, Join(or_output_path, D))
               = { D \o <<"_", "unrelaxed_", "model_", "1", ".pdb">>,
                   D \o <<"_", "ranking_debug.json">> }

\* The file system outside <job>_processed and the relocation tree.
Outside(f) ==
    [dirs |-> {d \in f.dirs :
                  /\ d # processed_path /\ ~Under(d, processed_path)
                  /\ d # or_output_path /\ ~Under(d, or_output_path)},
     files |-> [p \in {q \in DOMAIN f.files :
                          ~Under(q, processed_path) /\ ~Under(q, or_output_path)}
                    |-> f.files[p]]]

\* C9: neither pass creates, changes, renames or deletes anything inside
\* the job folder; they write only under <job>_processed and under the
\* relocation root.
C9_JobFolderReadOnly ==
    [][lastOp' \in {"process", "select"}
          => /\ Tree(fs', job_path) = Tree(fs, job_path)
             /\ Outside(fs') = Outside(fs)]_vars
C9_Witness ==
    /\ lastOp \in {"process", "select"}
    /\ \E s \in SeqFolders(fs) :
        /\ ProcessedOf(fs, s) # {}
        /\ FilesIn(fs, Join(or_output_path, s)) # {}
    /\ IsFile(fs, best_models_file)

\* Every ranking document that stores its mapping under plddts alone, stored
\* under iptm+ptm instead.
SwapToIptm(f) ==
    [f EXCEPT !.files =
        [p \in DOMAIN f.files |->
            IF Under(p, job_path) /\ DOMAIN f.files[p].scores = {"plddts"}
            THEN [f.files[p] EXCEPT !.scores = "iptm+ptm" :> f.files[p].scores["plddts"]]
            ELSE f.files[p]]]

\* C10: the score of the best model is read from plddts whenever that key
\* is present and from iptm+ptm only when it is absent, and a mapping stored
\* under iptm+ptm instead of plddts gives the same summary.
C10_PlddtsWheneverPresent ==
    (lastOp = "process" /\ raised = "")
        => /\ \A s \in SeqFolders(fs) :
                  (HasRanking(fs, s) /\ "plddts" \in DOMAIN RankingOf(fs, s).scores)
                      => \A k \in KeysOf(fs, s) :
                             LET m == RankingOf(fs, s).order[1]
                                 plddts == RankingOf(fs, s).scores["plddts"]
                             IN  m \in DOMAIN plddts /\ Summary(fs)[k] = plddts[m]
           /\ LET swapped == RunProcess(SwapToIptm(fs), listing)
              IN  swapped.exc = "" /\ Summary(swapped.fs) = Summary(fs)

====
